---- MODULE Spec2Model ----
(***************************************************************************)
(* Sales Analytics REST API (SalesAnalytics_Task2.py): the in-memory       *)
(* transaction store, the validator, the upload / clear handlers and the   *)
(* aggregate queries, as a state machine.                                  *)
(*                                                                         *)
(* JSON values are tagged records [k, v]:                                   *)
(*   [k |-> "num",  v |-> n]   a JSON number (Python int or float)         *)
(*   [k |-> "bool", v |-> b]   true (1) / false (0)    (Python bool)       *)
(*   [k |-> "str",  v |-> 0]   a JSON string in a numeric field           *)
(*   [k |-> "null", v |-> 0]   null                    (Python None)       *)
(*   [k |-> "list", v |-> s]   an array, s a sequence of JSON values       *)
(*   [k |-> "obj",  v |-> d]   an object, d a function from its keys       *)
(* The identifier and name fields of a transaction and its timestamp are   *)
(* plain strings.                                                          *)
(*                                                                         *)
(* Numbers are fixed point, so that fractional quantities exist: quantity  *)
(* and price count halves (quantity 1.5 is 3), total_amount and every sum  *)
(* of amounts count quarters (1.5 * 2.0 = 3.0 is 3 * 4 = 12).  On such     *)
(* small dyadic values Python's float arithmetic is exact.                 *)
(***************************************************************************)
EXTENDS Integers, Sequences, FiniteSets, TLC

VARIABLES transactions_db, request, response

vars == <<transactions_db, request, response>>

(***************************************************************************)
(* JSON / Python values                                                    *)
(***************************************************************************)
Num(n) == [k |-> "num", v |-> n]
Bool(b) == [k |-> "bool", v |-> b]
Str == [k |-> "str", v |-> 0]
Null == [k |-> "null", v |-> 0]
List(s) == [k |-> "list", v |-> s]
Obj(d) == [k |-> "obj", v |-> d]

\* n whole units as a count of halves
Whole(n) == 2 * n

\* isinstance(x, (int, float)): bool is a subclass of int in Python
IsIntOrFloat(x) == x.k \in {"num", "bool"}

\* the number a Python int, float or bool counts as in arithmetic and
\* comparisons (True is 1, False is 0), in halves
PyNum(x) == IF x.k = "bool" THEN Whole(x.v) ELSE x.v

\* Python truthiness of a JSON value: `not data`
Truthy(x) ==
    CASE x.k = "null" -> FALSE
      [] x.k = "list" -> Len(x.v) > 0
      [] x.k = "obj" -> DOMAIN x.v # {}
      [] x.k = "bool" -> x.v = 1
      [] x.k = "num" -> x.v # 0
      [] OTHER -> TRUE

\* d[key] = val on a Python dict
SetKey(d, key, val) ==
    [x \in (DOMAIN d) \cup {key} |-> IF x = key THEN val ELSE d[x]]

(***************************************************************************)
(* validate_transaction                                                    *)
(***************************************************************************)
required_fields ==
    <<"transaction_id", "customer_id", "customer_name",
      "product_id", "product_name", "quantity", "price">>

\* the index of the first required field that is not in d, 0 when none
RECURSIVE FirstMissingFrom(_, _)
FirstMissingFrom(d, i) ==
    IF i > Len(required_fields) THEN 0
    ELSE IF required_fields[i] \notin DOMAIN d THEN i
    ELSE FirstMissingFrom(d, i + 1)

\* data['quantity'] * data['price'], in quarters
TotalAmount(q, p) == Num(PyNum(q) * PyNum(p))

\* the quantity test of line 52
QuantityRejected(q) == ~IsIntOrFloat(q) \/ PyNum(q) <= 0

\* the price test of line 55
PriceRejected(p) == ~IsIntOrFloat(p) \/ PyNum(p) < 0

\* validate_transaction(data) with datetime.now().isoformat() = now.
\* raised: the call raised (`field not in data` on a value that is no
\* container); otherwise (is_valid, error_msg) and the dict as the call
\* left it (total_amount overwritten, timestamp defaulted).  On the values
\* modelled nothing inside the try block raises, so the except branch of
\* line 67 is never taken.
validate_transaction(data, now) ==
    IF data.k # "obj"
    THEN [raised |-> TRUE, is_valid |-> FALSE, error_msg |-> "", data |-> <<>>]
    ELSE LET d == data.v
             m == FirstMissingFrom(d, 1)
         IN IF m # 0
            THEN [raised |-> FALSE, is_valid |-> FALSE,
                  error_msg |-> "Missing required field: " \o required_fields[m],
                  data |-> d]
            ELSE IF QuantityRejected(d.quantity)
            THEN [raised |-> FALSE, is_valid |-> FALSE,
                  error_msg |-> "Quantity must be a positive number", data |-> d]
            ELSE IF PriceRejected(d.price)
            THEN [raised |-> FALSE, is_valid |-> FALSE,
                  error_msg |-> "Price must be a non-negative number", data |-> d]
            ELSE LET d1 == SetKey(d, "total_amount", TotalAmount(d.quantity, d.price))
                     d2 == IF "timestamp" \in DOMAIN d1 THEN d1
                           ELSE SetKey(d1, "timestamp", now)
                 IN [raised |-> FALSE, is_valid |-> TRUE, error_msg |-> "", data |-> d2]

(***************************************************************************)
(* upload_transactions                                                     *)
(***************************************************************************)
\* transaction.get('transaction_id', 'Unknown')
GetTransactionId(d) ==
    IF "transaction_id" \in DOMAIN d THEN d.transaction_id ELSE "Unknown"

\* Faulty variant of UploadLoop: an accepted record is put in front of the
\* list instead of behind it.
RECURSIVE UploadLoopPrepend(_, _, _, _, _, _)
UploadLoopPrepend(db, items, nows, idx, added_count, errors) ==
    IF idx > Len(items)
    THEN [raised |-> FALSE, db |-> db, added_count |-> added_count, errors |-> errors]
    ELSE LET r == validate_transaction(items[idx], nows[idx])
         IN IF r.raised
            THEN [raised |-> TRUE, db |-> db, added_count |-> added_count, errors |-> errors]
            ELSE IF r.is_valid
            THEN UploadLoopPrepend(<<r.data>> \o db, items, nows, idx + 1,
                                   added_count + 1, errors)
            ELSE UploadLoopPrepend(db, items, nows, idx + 1, added_count,
                     Append(errors, [index |-> idx - 1,
                                     transaction_id |-> GetTransactionId(items[idx].v),
                                     error |-> r.error_msg]))

\* The loop of lines 129-140 from item idx (1-based here, so the reported
\* index is idx - 1) onward.  nows[idx] is the clock reading of the idx-th
\* validate_transaction call.  An exception leaves the loop with the
\* records appended so far still in the list.
RECURSIVE UploadLoop(_, _, _, _, _, _)
UploadLoop(db, items, nows, idx, added_count, errors) ==
    IF idx > Len(items)
    THEN [raised |-> FALSE, db |-> db, added_count |-> added_count, errors |-> errors]
    ELSE LET r == validate_transaction(items[idx], nows[idx])
         IN IF r.raised
            THEN [raised |-> TRUE, db |-> db, added_count |-> added_count, errors |-> errors]
            ELSE IF r.is_valid
            THEN UploadLoop(Append(db, r.data), items, nows, idx + 1,
                            added_count + 1, errors)
            ELSE UploadLoop(db, items, nows, idx + 1, added_count,
                     Append(errors, [index |-> idx - 1,
                                     transaction_id |-> GetTransactionId(items[idx].v),
                                     error |-> r.error_msg]))

\* Faulty variant of TransactionsToAdd: the first item of an array is
\* skipped.
TransactionsToAddSkipFirst(data) ==
    IF data.k = "list" THEN SubSeq(data.v, 2, Len(data.v))
    ELSE IF "transactions" \in DOMAIN data.v
    THEN SubSeq(data.v.transactions.v, 2, Len(data.v.transactions.v))
    ELSE <<data>>

\* lines 115-123: the items of a truthy payload
TransactionsToAdd(data) ==
    IF data.k = "list" THEN data.v
    ELSE IF "transactions" \in DOMAIN data.v THEN data.v.transactions.v
    ELSE <<data>>

ServerError == [status |-> 500, success |-> FALSE, error |-> "Server error"]

\* The whole handler on payload `data`: the list afterwards and the reply.
\* request.get_json() is None for a null or absent body.
\* The reply carries 'errors' and 'failed_count' only when errors is
\* non-empty; added_count is the number in the reply's message.
upload_transactions(db, data, nows) ==
    IF ~Truthy(data)
    THEN [db |-> db,
          response |-> [status |-> 400, success |-> FALSE,
                        error |-> "No data provided"]]
    ELSE LET out == UploadLoop(db, TransactionsToAdd(data), nows, 1, 0, <<>>)
             base == [status |-> IF out.added_count > 0 THEN 201 ELSE 400,
                      success |-> TRUE,
                      added_count |-> out.added_count,
                      total_transactions |-> Len(out.db)]
         IN IF out.raised
            THEN [db |-> out.db, response |-> ServerError]
            ELSE [db |-> out.db,
                  response |->
                      IF out.errors # <<>>
                      THEN base @@ [errors |-> out.errors,
                                    failed_count |-> Len(out.errors)]
                      ELSE base]

(***************************************************************************)
(* clear_transactions                                                      *)
(***************************************************************************)
\* Faulty variant of clear_transactions: only the last record is removed.
clear_transactions_drop_last(db) ==
    [db |-> SubSeq(db, 1, Len(db) - 1),
     response |-> [status |-> 200, success |-> TRUE, cleared |-> Len(db)]]

\* the message's count is len(transactions_db) before the reset
clear_transactions(db) ==
    [db |-> <<>>,
     response |-> [status |-> 200, success |-> TRUE, cleared |-> Len(db)]]

(***************************************************************************)
(* Query parameters (request.args).  args is a function from the names of  *)
(* the parameters that are present to their raw values: a plain string     *)
(* for sort_by and order, [k |-> "int", v |-> n] for text that int()       *)
(* parses to n, [k |-> "float", v |-> a] for text that float() parses to   *)
(* the amount a (in quarters), [k |-> "text", v |-> 0] for text neither    *)
(* parses.                                                                 *)
(***************************************************************************)
\* request.args.get(name, default)
ArgGet(args, name, default) ==
    IF name \in DOMAIN args THEN args[name] ELSE default

\* request.args.get(name, default, type=int): the default when the
\* parameter is absent or int() raises ValueError
ArgGetInt(args, name, default) ==
    IF name \in DOMAIN args /\ args[name].k = "int"
    THEN Num(args[name].v) ELSE default

\* request.args.get(name, default, type=float); float() parses integer
\* text too
ArgGetFloat(args, name, default) ==
    IF name \in DOMAIN args /\ args[name].k \in {"int", "float"}
    THEN Num(IF args[name].k = "int" THEN 4 * args[name].v ELSE args[name].v)
    ELSE default

(***************************************************************************)
(* Python list helpers                                                     *)
(***************************************************************************)
Min(a, b) == IF a < b THEN a ELSE b
Max(a, b) == IF a > b THEN a ELSE b

\* s[:stop] for an int stop, negative stops counting from the end
PySliceTo(s, stop) ==
    IF stop >= 0 THEN SubSeq(s, 1, Min(stop, Len(s)))
    ELSE SubSeq(s, 1, Max(Len(s) + stop, 0))

\* Faulty variant of InsertSorted: x is placed in front of the elements
\* that sort equal to it.
RECURSIVE InsertSortedBeforeEquals(_, _, _, _)
InsertSortedBeforeEquals(s, x, key, reverse) ==
    IF s = <<>> THEN <<x>>
    ELSE IF (IF reverse THEN s[1][key] > x[key] ELSE s[1][key] < x[key])
    THEN <<s[1]>> \o InsertSortedBeforeEquals(Tail(s), x, key, reverse)
    ELSE <<x>> \o s

\* x placed into the sorted list s behind every element that does not
\* sort after it: list.sort is stable, with reverse=True as well
RECURSIVE InsertSorted(_, _, _, _)
InsertSorted(s, x, key, reverse) ==
    IF s = <<>> THEN <<x>>
    ELSE IF (IF reverse THEN s[1][key] >= x[key] ELSE s[1][key] <= x[key])
    THEN <<s[1]>> \o InsertSorted(Tail(s), x, key, reverse)
    ELSE <<x>> \o s

RECURSIVE SortFrom(_, _, _, _, _)
SortFrom(s, i, key, reverse, acc) ==
    IF i > Len(s) THEN acc
    ELSE SortFrom(s, i + 1, key, reverse, InsertSorted(acc, s[i], key, reverse))

\* results.sort(key=itemgetter(key), reverse=reverse)
ListSort(s, key, reverse) == SortFrom(s, 1, key, reverse, <<>>)

\* the position in s of the entry whose field idField is id, 0 when none
RECURSIVE IndexOf(_, _, _, _)
IndexOf(s, idField, id, i) ==
    IF i > Len(s) THEN 0
    ELSE IF s[i][idField] = id THEN i
    ELSE IndexOf(s, idField, id, i + 1)

(***************************************************************************)
(* sales_by_product                                                        *)
(***************************************************************************)
\* Faulty variant of ProductStep: only the first transaction of a product
\* counts.
ProductStepFirstOnly(product_sales, t) ==
    LET i == IndexOf(product_sales, "product_id", t.product_id, 1)
    IN IF i = 0
       THEN Append(product_sales,
                [product_id |-> t.product_id,
                 product_name |-> t.product_name,
                 total_sales |-> t.total_amount.v,
                 total_quantity |-> PyNum(t.quantity),
                 transaction_count |-> 1])
       ELSE product_sales

\* Faulty variant of ProductStep: every transaction of a product sets the
\* group's name.
ProductStepLastName(product_sales, t) ==
    LET i == IndexOf(product_sales, "product_id", t.product_id, 1)
    IN IF i = 0
       THEN Append(product_sales,
                [product_id |-> t.product_id,
                 product_name |-> t.product_name,
                 total_sales |-> 0 + t.total_amount.v,
                 total_quantity |-> 0 + PyNum(t.quantity),
                 transaction_count |-> 0 + 1])
       ELSE [product_sales EXCEPT
                ![i].product_name = t.product_name,
                ![i].total_sales = @ + t.total_amount.v,
                ![i].total_quantity = @ + PyNum(t.quantity),
                ![i].transaction_count = @ + 1]

\* Lines 189-201 for one transaction t.  product_sales is the dict's
\* values in insertion (first-seen) order.
ProductStep(product_sales, t) ==
    LET i == IndexOf(product_sales, "product_id", t.product_id, 1)
    IN IF i = 0
       THEN Append(product_sales,
                [product_id |-> t.product_id,
                 product_name |-> t.product_name,
                 total_sales |-> 0 + t.total_amount.v,
                 total_quantity |-> 0 + PyNum(t.quantity),
                 transaction_count |-> 0 + 1])
       ELSE [product_sales EXCEPT
                ![i].total_sales = @ + t.total_amount.v,
                ![i].total_quantity = @ + PyNum(t.quantity),
                ![i].transaction_count = @ + 1]

\* the loop of line 188
RECURSIVE ProductSales(_, _, _)
ProductSales(db, i, product_sales) ==
    IF i > Len(db) THEN product_sales
    ELSE ProductSales(db, i + 1, ProductStep(product_sales, db[i]))

\* Faulty variant of sales_by_product: the limit is applied before the
\* sort.
sales_by_product_limit_first(db, args) ==
    LET sort_by == ArgGet(args, "sort_by", "sales")
        order == ArgGet(args, "order", "desc")
        limit == ArgGetInt(args, "limit", Null)
        groups == ProductSales(db, 1, <<>>)
        sort_key == IF sort_by = "sales" THEN "total_sales" ELSE "total_quantity"
        cut == IF limit.k # "null" /\ limit.v # 0 /\ limit.v > 0
               THEN PySliceTo(groups, limit.v) ELSE groups
        limited == ListSort(cut, sort_key, order = "desc")
    IN [status |-> 200, success |-> TRUE, count |-> Len(limited), data |-> limited]

\* The handler: the reply for the query string args.
sales_by_product(db, args) ==
    LET sort_by == ArgGet(args, "sort_by", "sales")
        order == ArgGet(args, "order", "desc")
        limit == ArgGetInt(args, "limit", Null)
        results == ProductSales(db, 1, <<>>)
        sort_key == IF sort_by = "sales" THEN "total_sales" ELSE "total_quantity"
        sorted == ListSort(results, sort_key, order = "desc")
        limited == IF limit.k # "null" /\ limit.v # 0 /\ limit.v > 0
                   THEN PySliceTo(sorted, limit.v) ELSE sorted
    IN [status |-> 200, success |-> TRUE, count |-> Len(limited), data |-> limited]

(***************************************************************************)
(* top_customers                                                           *)
(***************************************************************************)
\* Faulty variant of CustomerStep: total_items counts transactions, not
\* quantities.
CustomerStepNoItems(customer_stats, t) ==
    LET i == IndexOf(customer_stats, "customer_id", t.customer_id, 1)
    IN IF i = 0
       THEN Append(customer_stats,
                [customer_id |-> t.customer_id,
                 customer_name |-> t.customer_name,
                 total_spent |-> t.total_amount.v,
                 total_transactions |-> 1,
                 total_items |-> 1,
                 products_purchased |-> {t.product_name}])
       ELSE [customer_stats EXCEPT
                ![i].total_spent = @ + t.total_amount.v,
                ![i].total_transactions = @ + 1,
                ![i].total_items = @ + 1,
                ![i].products_purchased = @ \cup {t.product_name}]

\* Lines 253-267 for one transaction t.
CustomerStep(customer_stats, t) ==
    LET i == IndexOf(customer_stats, "customer_id", t.customer_id, 1)
    IN IF i = 0
       THEN Append(customer_stats,
                [customer_id |-> t.customer_id,
                 customer_name |-> t.customer_name,
                 total_spent |-> 0 + t.total_amount.v,
                 total_transactions |-> 0 + 1,
                 total_items |-> 0 + PyNum(t.quantity),
                 products_purchased |-> {t.product_name}])
       ELSE [customer_stats EXCEPT
                ![i].total_spent = @ + t.total_amount.v,
                ![i].total_transactions = @ + 1,
                ![i].total_items = @ + PyNum(t.quantity),
                ![i].products_purchased = @ \cup {t.product_name}]

\* the loop of line 252
RECURSIVE CustomerStats(_, _, _)
CustomerStats(db, i, customer_stats) ==
    IF i > Len(db) THEN customer_stats
    ELSE CustomerStats(db, i + 1, CustomerStep(customer_stats, db[i]))

\* Faulty variant of MeetsMinimum: > in place of >=.
MeetsMinimumStrict(stats, min_amount) == stats.total_spent > min_amount.v

\* line 272: whether an entry is kept
MeetsMinimum(stats, min_amount) == stats.total_spent >= min_amount.v

\* Lines 274-277: the derived fields.  list(products_set) has no defined
\* order, so products_purchased stays a set; average_transaction is the
\* quotient total_spent / total_transactions as the pair [num, den].
Derived(stats) ==
    stats @@ [unique_products_count |-> Cardinality(stats.products_purchased),
              average_transaction |-> [num |-> stats.total_spent,
                                       den |-> stats.total_transactions]]

\* the loop of line 271; raised when a division by zero stopped it
RECURSIVE FilterStats(_, _, _, _)
FilterStats(customer_stats, i, min_amount, results) ==
    IF i > Len(customer_stats) THEN [raised |-> FALSE, results |-> results]
    ELSE IF MeetsMinimum(customer_stats[i], min_amount)
    THEN IF customer_stats[i].total_transactions = 0
         THEN [raised |-> TRUE, results |-> results]
         ELSE FilterStats(customer_stats, i + 1, min_amount,
                          Append(results, Derived(customer_stats[i])))
    ELSE FilterStats(customer_stats, i + 1, min_amount, results)

\* line 245: default=10
DefaultLimit == 10

\* The handler: the reply for the query string args.
top_customers(db, args) ==
    LET limit == ArgGetInt(args, "limit", Num(DefaultLimit))
        min_amount == ArgGetFloat(args, "min_spent", Num(0))
        customer_stats == CustomerStats(db, 1, <<>>)
        kept == FilterStats(customer_stats, 1, min_amount, <<>>)
        sorted == ListSort(kept.results, "total_spent", TRUE)
        limited == PySliceTo(sorted, limit.v)
    IN IF kept.raised THEN ServerError
       ELSE [status |-> 200, success |-> TRUE, count |-> Len(limited),
             data |-> limited]

(***************************************************************************)
(* datetime.fromisoformat                                                  *)
(***************************************************************************)
\* days of 2026 before the first of each month
DaysBefore == <<0, 31, 59, 90, 120, 151, 181, 212, 243, 273, 304, 334>>

\* seconds from 2026-01-01T00:00:00 to the given wall-clock reading
Instant(month, day, hour, minute, second) ==
    (DaysBefore[month] + day - 1) * 86400 + hour * 3600 + minute * 60 + second

\* a datetime: aware when the text carried a UTC offset
Naive(t) == [ok |-> TRUE, aware |-> FALSE, t |-> t]
Aware(t) == [ok |-> TRUE, aware |-> TRUE, t |-> t]
\* the call raised ValueError
NotIso == [ok |-> FALSE, aware |-> FALSE, t |-> 0]

\* datetime.fromisoformat(s) on the texts that occur: a date alone is
\* midnight, a text with an offset gives an aware datetime, any other text
\* raises ValueError ("Invalid isoformat string").
fromisoformat(s) ==
    CASE s = "2026-02-04" -> Naive(Instant(2, 4, 0, 0, 0))
      [] s = "2026-02-05T10:30:00" -> Naive(Instant(2, 5, 10, 30, 0))
      [] s = "2026-02-06T09:00:00" -> Naive(Instant(2, 6, 9, 0, 0))
      [] s = "2026-02-07" -> Naive(Instant(2, 7, 0, 0, 0))
      [] s = "2026-02-05T00:00:00+00:00" -> Aware(Instant(2, 5, 0, 0, 0))
      [] s = "2026-11-05T12:00:00" -> Naive(Instant(11, 5, 12, 0, 0))
      [] s = "2026-11-05T12:00:01" -> Naive(Instant(11, 5, 12, 0, 1))
      [] OTHER -> NotIso

(***************************************************************************)
(* Python slices                                                           *)
(***************************************************************************)
\* a slice index clamped into 0..n, a negative one counting from the end
SliceIndex(i, n) == IF i < 0 THEN Max(n + i, 0) ELSE Min(i, n)

\* s[start:stop] for an int start and a stop that is an int or None
PySlice(s, start, stop) ==
    LET n == Len(s)
        lo == SliceIndex(start, n)
        hi == IF stop.k = "null" THEN n ELSE SliceIndex(stop.v, n)
    IN SubSeq(s, lo + 1, hi)

(***************************************************************************)
(* filter_transactions                                                     *)
(***************************************************************************)
\* Lines 342-353 for one transaction t: "keep" (yield), "skip" (continue),
\* or the exception the date comparison raised: ValueError when the stored
\* timestamp does not parse, TypeError when one side is aware and the
\* other naive.  The tests run in this order and stop at the first that
\* decides.  c holds the parameters of lines 323-328 and the parsed bounds.
DateTest(t, bound, before) ==
    LET ts == fromisoformat(t.timestamp)
    IN IF ~ts.ok THEN "ValueError"
       ELSE IF ts.aware # bound.aware THEN "TypeError"
       ELSE IF (IF before THEN ts.t < bound.t ELSE ts.t > bound.t) THEN "skip"
       ELSE "keep"

FilterOne(t, c) ==
    IF c.customer_id # "" /\ t.customer_id # c.customer_id THEN "skip"
    ELSE IF c.product_id # "" /\ t.product_id # c.product_id THEN "skip"
    ELSE IF c.min_amount.k # "null" /\ t.total_amount.v < c.min_amount.v THEN "skip"
    ELSE IF c.max_amount.k # "null" /\ t.total_amount.v > c.max_amount.v THEN "skip"
    ELSE LET s == IF c.start_date # ""
                  THEN DateTest(t, c.start_dt, TRUE) ELSE "keep"
         IN IF s # "keep" THEN s
            ELSE IF c.end_date # "" THEN DateTest(t, c.end_dt, FALSE)
            ELSE "keep"

\* the loop of line 340 from record i on
RECURSIVE FilterLoop(_, _, _, _)
FilterLoop(db, i, c, filtered) ==
    IF i > Len(db) THEN [raised |-> "", filtered |-> filtered]
    ELSE LET r == FilterOne(db[i], c)
         IN IF r = "keep" THEN FilterLoop(db, i + 1, c, Append(filtered, db[i]))
            ELSE IF r = "skip" THEN FilterLoop(db, i + 1, c, filtered)
            ELSE [raised |-> r, filtered |-> filtered]

\* the bound a date parameter gives: None ("" here) is no bound
ParseBound(text) == IF text # "" THEN fromisoformat(text) ELSE Naive(0)

\* Faulty variant of apply_filters: the bounds are parsed when the first
\* record is reached, so that an empty list never sees them.
apply_filters_parse_per_record(db, p) ==
    LET start_dt == ParseBound(p.start_date)
        end_dt == ParseBound(p.end_date)
    IN IF db # <<>> /\ (~start_dt.ok \/ ~end_dt.ok)
       THEN [raised |-> "ValueError", filtered |-> <<>>,
             text |-> IF ~start_dt.ok THEN p.start_date ELSE p.end_date]
       ELSE FilterLoop(db, 1, p @@ [start_dt |-> start_dt, end_dt |-> end_dt],
                       <<>>) @@ [text |-> ""]

\* list(apply_filters(transactions_db)): lines 337-338 parse the bounds
\* once, before the loop; text is the string a failed parse names.
apply_filters(db, p) ==
    LET start_dt == ParseBound(p.start_date)
        end_dt == ParseBound(p.end_date)
    IN IF ~start_dt.ok
       THEN [raised |-> "ValueError", filtered |-> <<>>, text |-> p.start_date]
       ELSE IF ~end_dt.ok
       THEN [raised |-> "ValueError", filtered |-> <<>>, text |-> p.end_date]
       ELSE FilterLoop(db, 1, p @@ [start_dt |-> start_dt, end_dt |-> end_dt],
                       <<>>) @@ [text |-> ""]

\* sum(t['total_amount'] for t in filtered) if filtered else 0
RECURSIVE SumAmounts(_, _)
SumAmounts(filtered, i) ==
    IF i > Len(filtered) THEN 0
    ELSE filtered[i].total_amount.v + SumAmounts(filtered, i + 1)

InvalidDateFormat == "Invalid date format"

\* The handler: the reply for the query string args.  A parameter that is
\* absent is None; the code tests the string parameters by truth, so None
\* and the empty string are one case (""), and the numeric ones by
\* `is not None` (amounts) or by truth (limit, offset).  A ValueError that
\* is not a failed parse of a bound has no parameter text to name.
filter_transactions(db, args) ==
    LET p == [customer_id |-> ArgGet(args, "customer_id", ""),
              product_id |-> ArgGet(args, "product_id", ""),
              min_amount |-> ArgGetFloat(args, "min_amount", Null),
              max_amount |-> ArgGetFloat(args, "max_amount", Null),
              start_date |-> ArgGet(args, "start_date", ""),
              end_date |-> ArgGet(args, "end_date", "")]
        limit == ArgGetInt(args, "limit", Null)
        offset == ArgGetInt(args, "offset", Num(0))
        out == apply_filters(db, p)
        filtered == out.filtered
        total_count == Len(filtered)
        total_amount == IF filtered # <<>> THEN SumAmounts(filtered, 1) ELSE 0
        page == IF Truthy(limit)
                THEN PySlice(filtered, offset.v, Num(offset.v + limit.v))
                ELSE IF Truthy(offset) THEN PySlice(filtered, offset.v, Null)
                ELSE filtered
    IN IF out.raised = "ValueError"
       THEN [status |-> 400, success |-> FALSE, error |-> InvalidDateFormat,
             text |-> out.text]
       ELSE IF out.raised # "" THEN ServerError
       ELSE [status |-> 200, success |-> TRUE, count |-> Len(page),
             total_count |-> total_count, total_amount |-> total_amount,
             offset |-> offset.v, data |-> page]

(***************************************************************************)
(* get_all_transactions, health_check                                      *)
(***************************************************************************)
\* Faulty variant of get_all_transactions: the window is one record longer
\* than limit.
get_all_transactions_one_more(db, args) ==
    LET limit == ArgGetInt(args, "limit", Null)
        offset == ArgGetInt(args, "offset", Num(0))
        end_idx == IF Truthy(limit) THEN Num(offset.v + limit.v + 1) ELSE Null
        result == PySlice(db, offset.v, end_idx)
    IN [status |-> 200, success |-> TRUE, count |-> Len(result),
        total_count |-> Len(db), data |-> result]

\* The handler: `offset + limit if limit else None` is None for limit 0
get_all_transactions(db, args) ==
    LET limit == ArgGetInt(args, "limit", Null)
        offset == ArgGetInt(args, "offset", Num(0))
        end_idx == IF Truthy(limit) THEN Num(offset.v + limit.v) ELSE Null
        result == PySlice(db, offset.v, end_idx)
    IN [status |-> 200, success |-> TRUE, count |-> Len(result),
        total_count |-> Len(db), data |-> result]

\* The handler, with datetime.now().isoformat() = now
health_check(db, now) ==
    [status |-> 200, health |-> "healthy", total_transactions |-> Len(db),
     timestamp |-> now]

(***************************************************************************)
(* Bounds                                                                  *)
(***************************************************************************)
\* most records the list holds
MaxDb == 3
\* most items in one upload
MaxBatch == 2

(***************************************************************************)
(* Inputs: request bodies                                                  *)
(***************************************************************************)
\* a key the caller left out of an object
Absent == [k |-> "absent", v |-> 0]

StringFields ==
    {"transaction_id", "customer_id", "customer_name", "product_id",
     "product_name", "timestamp", "sort_by", "order", "start_date",
     "end_date"}

IsAbsent(f, x) == IF f \in StringFields THEN x = "" ELSE x.k = "absent"

\* the object with the keys of full whose value is not left out
Present(full) ==
    [f \in {g \in DOMAIN full : ~IsAbsent(g, full[g])} |-> full[f]]

\* a transaction object as a caller sends it ("" / Absent: key left out)
MakeDict(tid, cid, cname, pid, pname, q, p, total, ts) ==
    Present([transaction_id |-> tid, customer_id |-> cid, customer_name |-> cname,
             product_id |-> pid, product_name |-> pname, quantity |-> q,
             price |-> p, total_amount |-> total, timestamp |-> ts])

CustomerName(cid) ==
    CASE cid = "C1" -> "Alice" [] cid = "C2" -> "Bob" [] OTHER -> "Carol"
ProductName(pid) == IF pid = "P1" THEN "Laptop" ELSE "Mouse"

\* a complete transaction with a timestamp and no total_amount
Txn(tid, cid, pid, q, p) ==
    MakeDict(tid, cid, CustomerName(cid), pid, ProductName(pid), q, p, Absent,
             "2026-02-05T10:30:00")

\* datetime.now().isoformat() at successive calls
Clock == <<"2026-11-05T12:00:00", "2026-11-05T12:00:01">>

\* the clock readings of n successive calls: the clock does not run backwards
ClockReadings(n) ==
    {[i \in 1..n |-> Clock[c[i]]] :
        c \in {d \in [1..n -> 1..Len(Clock)] :
                 \A i \in 1..n, j \in 1..n : i <= j => d[i] <= d[j]}}

\* Every shape of transaction object the validator distinguishes.
ValidateInputs ==
    {MakeDict(tid, cid, cname, pid, pname, q, p, total, ts) :
        tid \in {"", "T1"}, cid \in {"", "C1"}, cname \in {"", "Alice"},
        pid \in {"", "P1"}, pname \in {"", "Laptop"},
        q \in {Absent, Num(-2), Num(0), Num(1), Num(Whole(2)),
               Num(Whole(1000000)), Str, Null, Bool(0), Bool(1)},
        p \in {Absent, Num(-1), Num(0), Num(3), Str, Null, Bool(0), Bool(1)},
        total \in {Absent, Num(99)},
        ts \in {"", "2026-02-05T10:30:00"}}

\* Records the validator accepts.
ValidRecords ==
    {Txn("T2", "C1", "P2", Num(3), Num(Whole(2))),
     Txn("T3", "C2", "P1", Num(Whole(1)), Num(Whole(2))),
     Txn("T4", "C2", "P2", Num(Whole(2)), Num(0)),
     Txn("T5", "C3", "P2", Num(Whole(1)), Num(Whole(1))),
     \* a caller-supplied total_amount and no timestamp
     MakeDict("T6", "C1", "Alice", "P1", "Laptop", Num(Whole(1)), Num(Whole(2)),
              Num(99), ""),
     \* quantity true
     Txn("T7", "C3", "P1", Bool(1), Num(Whole(2)))}

\* Records the validator rejects.
InvalidRecords ==
    {MakeDict("", "C1", "Alice", "P1", "Laptop", Num(Whole(1)), Absent, Absent, ""),
     Txn("T8", "C1", "P1", Num(0), Num(Whole(2))),
     Txn("T9", "C2", "P1", Num(Whole(1)), Num(-1))}

\* The items of a batch: objects and, as a JSON array may hold anything,
\* a number.
Items == {Obj(d) : d \in ValidRecords \cup InvalidRecords} \cup {Num(5)}

Batches(items) == UNION {[1..n -> items] : n \in 0..MaxBatch}

\* The bodies of POST /api/transactions: null, {}, a bare array, an array
\* under "transactions", a single object.
Payloads ==
    {Null, Obj(<<>>)}
    \cup {List(b) : b \in Batches(Items)}
    \cup {Obj([transactions |-> List(b)]) : b \in Batches(Items)}
    \cup {i \in Items : i.k = "obj"}

(***************************************************************************)
(* Inputs: query strings                                                   *)
(***************************************************************************)
IntText(n) == [k |-> "int", v |-> n]
FloatText(a) == [k |-> "float", v |-> a]
Text == [k |-> "text", v |-> 0]

ProductArgs ==
    {Present([sort_by |-> s, order |-> o, limit |-> l]) :
        s \in {"", "sales", "quantity", "name"},
        o \in {"", "asc", "desc", "up"},
        l \in {Absent, IntText(-1), IntText(0), IntText(1), IntText(2), Text}}

CustomerArgs ==
    {Present([limit |-> l, min_spent |-> m]) :
        l \in {Absent, IntText(-1), IntText(0), IntText(1), IntText(2), Text},
        m \in {Absent, IntText(0), IntText(2), FloatText(12), Text}}

\* GET /api/transactions: limit and offset as sent
ListArgs ==
    {Present([limit |-> l, offset |-> o]) :
        l \in {Absent, IntText(-1), IntText(0), IntText(1), IntText(2), Text},
        o \in {Absent, IntText(-1), IntText(0), IntText(1), IntText(2),
               IntText(4), Text}}

\* GET /api/transactions/filter on the records above
FilterArgs ==
    {<<>>,
     [customer_id |-> "C1"],
     [product_id |-> "P2", min_amount |-> IntText(1)],
     [start_date |-> "2026-02-05T10:30:00", limit |-> IntText(1)],
     [end_date |-> "05/02/2026"],
     [max_amount |-> FloatText(8), offset |-> IntText(1)]}

(***************************************************************************)
(* The state machine                                                       *)
(***************************************************************************)
\* Between two requests only the list lives on: request and response are
\* the handler's own, set while a call is served and gone once its reply
\* is sent.
Idle == request.op = "none"

\* line 28: the list is empty when the module is loaded
Init ==
    /\ transactions_db = <<>>
    /\ request = [op |-> "none"]
    /\ response = [status |-> 0]

\* the number of items the loop of line 129 visits
ItemCount(data) ==
    IF Truthy(data) THEN Len(TransactionsToAdd(data)) ELSE 0

\* POST /api/transactions
Upload ==
    \E data \in Payloads :
        /\ Idle
        /\ Len(transactions_db) + ItemCount(data) <= MaxDb
        /\ \E nows \in ClockReadings(ItemCount(data)) :
              LET out == upload_transactions(transactions_db, data, nows)
              IN /\ transactions_db' = out.db
                 /\ request' = [op |-> "upload", data |-> data]
                 /\ response' = out.response

\* DELETE /api/transactions
Clear ==
    LET out == clear_transactions(transactions_db)
    IN /\ Idle
       /\ transactions_db' = out.db
       /\ request' = [op |-> "clear"]
       /\ response' = out.response

\* GET /api/sales/by-product
SalesByProduct ==
    \E args \in ProductArgs :
        /\ Idle
        /\ request' = [op |-> "sales_by_product", args |-> args]
        /\ response' = sales_by_product(transactions_db, args)
        /\ UNCHANGED transactions_db

\* GET /api/customers/top
TopCustomers ==
    \E args \in CustomerArgs :
        /\ Idle
        /\ request' = [op |-> "top_customers", args |-> args]
        /\ response' = top_customers(transactions_db, args)
        /\ UNCHANGED transactions_db

\* GET /api/transactions/filter
Filter ==
    \E args \in FilterArgs :
        /\ Idle
        /\ request' = [op |-> "filter", args |-> args]
        /\ response' = filter_transactions(transactions_db, args)
        /\ UNCHANGED transactions_db

\* GET /api/transactions
ListAll ==
    \E args \in ListArgs :
        /\ Idle
        /\ request' = [op |-> "list_all", args |-> args]
        /\ response' = get_all_transactions(transactions_db, args)
        /\ UNCHANGED transactions_db

\* GET /api/health
HealthCheck ==
    \E i \in 1..Len(Clock) :
        /\ Idle
        /\ request' = [op |-> "health"]
        /\ response' = health_check(transactions_db, Clock[i])
        /\ UNCHANGED transactions_db

\* the reply is sent: the server waits for the next request
Return ==
    /\ ~Idle
    /\ request' = [op |-> "none"]
    /\ response' = [status |-> 0]
    /\ UNCHANGED transactions_db

Next ==
    \/ Upload \/ Clear \/ SalesByProduct \/ TopCustomers
    \/ Filter \/ ListAll \/ HealthCheck \/ Return

Spec == Init /\ [][Next]_vars

(***************************************************************************)
(* validate_transaction alone, on every shape of object                    *)
(***************************************************************************)
InitValidate ==
    /\ transactions_db = <<>>
    /\ request \in {[op |-> "validate", data |-> Obj(d)] : d \in ValidateInputs}
    /\ response = [status |-> 0]

Validate ==
    /\ request.op = "validate"
    /\ response.status = 0
    /\ \E i \in 1..Len(Clock) :
          response' = [status |-> 1,
                       result |-> validate_transaction(request.data, Clock[i])]
    /\ UNCHANGED <<transactions_db, request>>

SpecValidate == InitValidate /\ [][Validate]_vars

(***************************************************************************)
(* Many customers: single uploads of one record each, by a customer not    *)
(* seen before or by the first one, and the top-customers query without a  *)
(* limit parameter.                                                        *)
(***************************************************************************)
\* most records the list holds here
MaxTopDb == 12
\* most distinct customers
MaxTopCustomers == 11

CustomerIdsOf(db) == {db[i].customer_id : i \in 1..Len(db)}

\* the n-th customer's record: the first customer buys at price 0
TopRecord(n) ==
    Txn("T" \o ToString(n), "K" \o ToString(n), "P1", Num(Whole(1)),
        Num(Whole(n - 1)))

TopArgs == {<<>>, [min_spent |-> IntText(0)], [min_spent |-> FloatText(0)]}

UploadTop ==
    \E n \in {1, Cardinality(CustomerIdsOf(transactions_db)) + 1} :
        /\ Idle
        /\ n <= MaxTopCustomers
        /\ Len(transactions_db) < MaxTopDb
        /\ LET data == Obj(TopRecord(n))
               out == upload_transactions(transactions_db, data, <<Clock[1]>>)
           IN /\ transactions_db' = out.db
              /\ request' = [op |-> "upload", data |-> data]
              /\ response' = out.response

TopCustomersNoLimit ==
    \E args \in TopArgs :
        /\ Idle
        /\ request' = [op |-> "top_customers", args |-> args]
        /\ response' = top_customers(transactions_db, args)
        /\ UNCHANGED transactions_db

NextTop == UploadTop \/ TopCustomersNoLimit \/ Return

SpecTop == Init /\ [][NextTop]_vars

(***************************************************************************)
(* The filter query: single uploads of records that differ in customer,    *)
(* product, amount and timestamp, and the query with every combination of  *)
(* its parameters.                                                         *)
(***************************************************************************)
\* most records the list holds here
MaxFilterDb == 3

\* amounts 2.0, 3.0 and 1.0; the third record gets the clock's timestamp
FilterRecords ==
    {MakeDict("F1", "C1", "Alice", "P1", "Laptop", Num(Whole(1)), Num(Whole(2)),
              Absent, "2026-02-04"),
     MakeDict("F2", "C1", "Alice", "P2", "Mouse", Num(3), Num(Whole(2)),
              Absent, "2026-02-05T10:30:00"),
     MakeDict("F3", "C2", "Bob", "P2", "Mouse", Num(Whole(1)), Num(Whole(1)),
              Absent, "")}

FilterArgsWide ==
    {Present([customer_id |-> c, product_id |-> p, min_amount |-> lo,
              max_amount |-> hi, start_date |-> sd, end_date |-> ed,
              limit |-> l, offset |-> o]) :
        c \in {"", "C1"}, p \in {"", "P2"},
        lo \in {Absent, FloatText(8), Text},
        hi \in {Absent, IntText(2)},
        sd \in {"", "2026-02-05T10:30:00", "2026-02-05T00:00:00+00:00",
                "yesterday"},
        ed \in {"", "2026-02-06T09:00:00", "05/02/2026"},
        l \in {Absent, IntText(-1), IntText(0), IntText(1)},
        o \in {Absent, IntText(-1), IntText(1)}}

UploadFilter ==
    \E d \in FilterRecords :
        /\ Idle
        /\ Len(transactions_db) < MaxFilterDb
        /\ LET data == Obj(d)
               out == upload_transactions(transactions_db, data, <<Clock[1]>>)
           IN /\ transactions_db' = out.db
              /\ request' = [op |-> "upload", data |-> data]
              /\ response' = out.response

FilterWide ==
    \E args \in FilterArgsWide :
        /\ Idle
        /\ request' = [op |-> "filter", args |-> args]
        /\ response' = filter_transactions(transactions_db, args)
        /\ UNCHANGED transactions_db

NextFilter == UploadFilter \/ FilterWide \/ Return

SpecFilter == Init /\ [][NextFilter]_vars

(***************************************************************************)
(* Concurrent requests.  app.run serves each request on a thread of its    *)
(* own, and no handler takes a lock: between two iterations of the upload  *)
(* loop another handler may run.  Here request and response are functions  *)
(* of the thread: request[t] is the call thread t serves with the          *)
(* position it has reached, response[t] its reply once sent.               *)
(***************************************************************************)
Threads == {1, 2}

\* most items in one upload here
MaxConcurrentBatch == 2

ConcurrentRecords ==
    {Txn("T2", "C1", "P2", Num(3), Num(Whole(2))),
     Txn("T3", "C2", "P1", Num(Whole(1)), Num(Whole(2)))}

ConcurrentBatches ==
    UNION {[1..n -> {Obj(d) : d \in ConcurrentRecords}] : n \in 1..MaxConcurrentBatch}

\* the calls a thread may be given
ConcurrentCalls ==
    {[op |-> "upload", data |-> List(b)] : b \in ConcurrentBatches}
    \cup {[op |-> "clear"], [op |-> "list_all"]}

NotStarted == [op |-> "none"]
NoReply == [status |-> 0]

InitConcurrent ==
    /\ transactions_db = <<>>
    /\ request = [t \in Threads |-> NotStarted]
    /\ response = [t \in Threads |-> NoReply]

\* a request arrives and is given to thread t; for an upload lines 102-127
\* run: the items are taken from the body and the counters start at 0
Begin(t) ==
    /\ request[t] = NotStarted
    /\ \E call \in ConcurrentCalls :
          request' = [request EXCEPT ![t] =
              IF call.op = "upload"
              THEN call @@ [items |-> TransactionsToAdd(call.data), idx |-> 1,
                            added_count |-> 0, errors |-> <<>>]
              ELSE call]
    /\ UNCHANGED <<transactions_db, response>>

Running(t) == request[t] # NotStarted /\ response[t] = NoReply

\* one iteration of the loop of lines 129-140 in thread t, on the list as
\* it is now
UploadItem(t) ==
    /\ Running(t)
    /\ request[t].op = "upload"
    /\ request[t].idx <= Len(request[t].items)
    /\ LET r == request[t]
           out == UploadLoop(transactions_db, SubSeq(r.items, 1, r.idx),
                             [i \in 1..r.idx |-> Clock[1]], r.idx,
                             r.added_count, r.errors)
       IN /\ transactions_db' = out.db
          /\ request' = [request EXCEPT ![t].idx = @ + 1,
                                        ![t].added_count = out.added_count,
                                        ![t].errors = out.errors]
    /\ UNCHANGED response

\* lines 142-152 in thread t: the loop is over, the reply is built from
\* the counters and from the list as it is now
UploadReply(t) ==
    /\ Running(t)
    /\ request[t].op = "upload"
    /\ request[t].idx > Len(request[t].items)
    /\ response' = [response EXCEPT ![t] =
          [status |-> IF request[t].added_count > 0 THEN 201 ELSE 400,
           success |-> TRUE,
           added_count |-> request[t].added_count,
           total_transactions |-> Len(transactions_db)]]
    /\ UNCHANGED <<transactions_db, request>>

\* clear_transactions in thread t
ClearStep(t) ==
    /\ Running(t)
    /\ request[t].op = "clear"
    /\ LET out == clear_transactions(transactions_db)
       IN /\ transactions_db' = out.db
          /\ response' = [response EXCEPT ![t] = out.response]
    /\ UNCHANGED request

\* get_all_transactions in thread t
ListStep(t) ==
    /\ Running(t)
    /\ request[t].op = "list_all"
    /\ response' = [response EXCEPT ![t] =
                       get_all_transactions(transactions_db, <<>>)]
    /\ UNCHANGED <<transactions_db, request>>

NextConcurrent ==
    \E t \in Threads :
        \/ Begin(t) \/ UploadItem(t) \/ UploadReply(t)
        \/ ClearStep(t) \/ ListStep(t)

SpecConcurrent == InitConcurrent /\ [][NextConcurrent]_vars

(***************************************************************************)
(* Names that differ under one id: single uploads of records that share a  *)
(* product_id or customer_id but not the name, and both aggregate queries. *)
(***************************************************************************)
\* most records the list holds here
MaxNamesDb == 3

NamesRecords ==
    {MakeDict("N1", "C1", "Alice", "P1", "Laptop", Num(Whole(1)), Num(Whole(2)),
              Absent, "2026-02-04"),
     MakeDict("N2", "C1", "Alicia", "P1", "Notebook", Num(Whole(1)), Num(Whole(1)),
              Absent, "2026-02-05T10:30:00"),
     MakeDict("N3", "C2", "Bob", "P1", "Laptop Pro", Num(Whole(2)), Num(Whole(1)),
              Absent, "2026-02-06T09:00:00")}

UploadNames ==
    \E d \in NamesRecords :
        /\ Idle
        /\ Len(transactions_db) < MaxNamesDb
        /\ LET data == Obj(d)
               out == upload_transactions(transactions_db, data, <<Clock[1]>>)
           IN /\ transactions_db' = out.db
              /\ request' = [op |-> "upload", data |-> data]
              /\ response' = out.response

NextNames == UploadNames \/ SalesByProduct \/ TopCustomers \/ Return

SpecNames == Init /\ [][NextNames]_vars

(***************************************************************************)
(* Timestamps that do not parse: single uploads of records whose           *)
(* timestamp is or is not ISO-8601, the filter query with every            *)
(* combination of its parameters, the other queries and clear.             *)
(***************************************************************************)
\* most records the list holds here
MaxStampsDb == 3

\* amounts 2.0, 3.0 and 1.0; the first and the third timestamp do not parse
StampsRecords ==
    {MakeDict("S1", "C1", "Alice", "P1", "Laptop", Num(Whole(1)), Num(Whole(2)),
              Absent, "yesterday"),
     MakeDict("S2", "C1", "Alice", "P2", "Mouse", Num(3), Num(Whole(2)),
              Absent, "2026-02-05T10:30:00"),
     MakeDict("S3", "C2", "Bob", "P2", "Mouse", Num(Whole(1)), Num(Whole(1)),
              Absent, "05/02/2026")}

UploadStamps ==
    \E d \in StampsRecords :
        /\ Idle
        /\ Len(transactions_db) < MaxStampsDb
        /\ LET data == Obj(d)
               out == upload_transactions(transactions_db, data, <<Clock[1]>>)
           IN /\ transactions_db' = out.db
              /\ request' = [op |-> "upload", data |-> data]
              /\ response' = out.response

NextStamps ==
    \/ UploadStamps \/ FilterWide \/ ListAll \/ SalesByProduct \/ TopCustomers
    \/ Clear \/ Return

SpecStamps == Init /\ [][NextStamps]_vars

(***************************************************************************)
(* Properties                                                              *)
(***************************************************************************)
\* the reply's errors ('errors' is left out of a reply without any)
ErrorsOf(resp) == IF "errors" \in DOMAIN resp THEN resp.errors ELSE <<>>

\* the items a caller sent: the elements of a bare array or of the array
\* under "transactions", else the single object itself
SentItems(data) ==
    CASE data.k = "list" -> data.v
      [] data.k = "obj" /\ "transactions" \in DOMAIN data.v -> data.v.transactions.v
      [] OTHER -> <<data>>

\* a JSON number, as opposed to true, false, a string or null
IsJsonNumber(x) == x.k = "num"

\* ---- C3 ----------------------------------------------------------------
\* What the validator's contract asks for object d: the first violated
\* rule, in the order of the rules, or "Ok".
ContractOutcome(d) ==
    LET missing == {i \in 1..Len(required_fields) : required_fields[i] \notin DOMAIN d}
    IN IF missing # {}
       THEN "MissingField(" \o
            required_fields[CHOOSE i \in missing : \A j \in missing : i <= j] \o ")"
       ELSE IF ~IsJsonNumber(d.quantity) \/ d.quantity.v <= 0 THEN "InvalidQuantity"
       ELSE IF ~IsJsonNumber(d.price) \/ d.price.v < 0 THEN "InvalidPrice"
       ELSE "Ok"

\* what validate_transaction answered, in the contract's terms
CodeOutcome(r) ==
    IF r.raised THEN "Raised"
    ELSE IF r.is_valid THEN "Ok"
    ELSE IF r.error_msg = "Quantity must be a positive number" THEN "InvalidQuantity"
    ELSE IF r.error_msg = "Price must be a non-negative number" THEN "InvalidPrice"
    ELSE IF \E i \in 1..Len(required_fields) :
               r.error_msg = "Missing required field: " \o required_fields[i]
    THEN "MissingField(" \o
         required_fields[CHOOSE i \in 1..Len(required_fields) :
             r.error_msg = "Missing required field: " \o required_fields[i]] \o ")"
    ELSE "Other"

Validated == request.op = "validate" /\ response.status = 1

\* C3: validate(record) returns the first violated rule in the fixed order
\* (MissingField of the first absent field, then InvalidQuantity when
\* quantity is not a number - a string, a boolean, null - or <= 0, then
\* InvalidPrice when price is not a number or < 0) and succeeds if and
\* only if no rule is violated.
C3_FirstViolatedRule ==
    Validated => CodeOutcome(response.result) = ContractOutcome(request.data.v)

\* The same with true and false left out of quantity and price: on every
\* other object the validator answers as its contract asks.
C3_ExceptBooleans ==
    (/\ Validated
     /\ \A f \in {"quantity", "price"} :
           f \in DOMAIN request.data.v => request.data.v[f].k # "bool")
    => CodeOutcome(response.result) = ContractOutcome(request.data.v)

\* ---- C1 ----------------------------------------------------------------
\* C1: every record in the list has the seven required fields, a numeric
\* quantity > 0, a numeric price >= 0 and total_amount = quantity * price,
\* whatever total_amount the caller sent.
C1_StoredRecordsValid ==
    \A i \in 1..Len(transactions_db) :
        LET t == transactions_db[i]
        IN /\ \A j \in 1..Len(required_fields) : required_fields[j] \in DOMAIN t
           /\ IsJsonNumber(t.quantity) /\ t.quantity.v > 0
           /\ IsJsonNumber(t.price) /\ t.price.v >= 0
           /\ "total_amount" \in DOMAIN t
           /\ t.total_amount = Num(t.quantity.v * t.price.v)

\* The same with Python's reading of "numeric", under which true is the
\* number 1 and false the number 0.
C1_StoredRecordsValidPython ==
    \A i \in 1..Len(transactions_db) :
        LET t == transactions_db[i]
        IN /\ \A j \in 1..Len(required_fields) : required_fields[j] \in DOMAIN t
           /\ t.quantity.k \in {"num", "bool"} /\ PyNum(t.quantity) > 0
           /\ t.price.k \in {"num", "bool"} /\ PyNum(t.price) >= 0
           /\ "total_amount" \in DOMAIN t
           /\ t.total_amount = Num(PyNum(t.quantity) * PyNum(t.price))

\* ---- C2 ----------------------------------------------------------------
\* a step that serves an upload whose body is truthy
UploadStep == Idle /\ request'.op = "upload" /\ Truthy(request'.data)

AllObjects(items) == \A i \in 1..Len(items) : items[i].k = "obj"

\* whether the validator accepts the object (the clock reading plays no part)
Passes(item) == validate_transaction(item, Clock[1]).is_valid

\* the positions (1-based) of the items the validator accepts / rejects
PassingAt(items) == {i \in 1..Len(items) : Passes(items[i])}
FailingAt(items) == {i \in 1..Len(items) : ~Passes(items[i])}

\* the k-th smallest element of the set of numbers S
RECURSIVE KthOf(_, _)
KthOf(S, k) ==
    LET m == CHOOSE x \in S : \A y \in S : x <= y
    IN IF k = 1 THEN m ELSE KthOf(S \ {m}, k - 1)

\* stored is the object sent, with total_amount set and a timestamp
StoredFrom(stored, sent) ==
    /\ DOMAIN stored = DOMAIN sent \cup {"total_amount", "timestamp"}
    /\ \A f \in DOMAIN sent \ {"total_amount"} : stored[f] = sent[f]

\* C2: after an upload of a batch of objects the list is the list before
\* followed by exactly the accepted items in batch order; every rejected
\* item yields exactly one error with its 0-based index, its
\* transaction_id (or "Unknown") and the reason; added_count plus the
\* number of errors is the batch size.
C2_PartialBatch ==
    [][(UploadStep /\ AllObjects(SentItems(request'.data))) =>
        LET items == SentItems(request'.data)
            before == transactions_db
            after == transactions_db'
            errs == ErrorsOf(response')
            ok == PassingAt(items)
            bad == FailingAt(items)
        IN /\ Len(after) = Len(before) + Cardinality(ok)
           /\ SubSeq(after, 1, Len(before)) = before
           /\ \A k \in 1..Cardinality(ok) :
                 StoredFrom(after[Len(before) + k], items[KthOf(ok, k)].v)
           /\ Len(errs) = Cardinality(bad)
           /\ \A k \in 1..Cardinality(bad) :
                 LET i == KthOf(bad, k)
                 IN /\ errs[k].index = i - 1
                    /\ errs[k].transaction_id =
                          (IF "transaction_id" \in DOMAIN items[i].v
                           THEN items[i].v.transaction_id ELSE "Unknown")
                    /\ errs[k].error = validate_transaction(items[i], Clock[1]).error_msg
           /\ response'.added_count = Cardinality(ok)
           /\ response'.added_count + Len(errs) = Len(items)]_vars

\* an upload onto a non-empty list stored the second of two items and
\* reported the first, which has no transaction_id
C2_Witness ==
    /\ request.op = "upload"
    /\ request.data.k = "list"
    /\ Len(request.data.v) = 2
    /\ response.status = 201
    /\ response.added_count = 1
    /\ Len(ErrorsOf(response)) = 1
    /\ ErrorsOf(response)[1].index = 0
    /\ ErrorsOf(response)[1].transaction_id = "Unknown"
    /\ Len(transactions_db) = 2

\* ---- C4 ----------------------------------------------------------------
\* the list after the items are uploaded one call each, as single objects
RECURSIVE OneByOne(_, _, _)
OneByOne(db, items, i) ==
    IF i > Len(items) THEN db
    ELSE OneByOne(upload_transactions(db, items[i], <<Clock[1]>>).db, items, i + 1)

\* a batch (bare or under "transactions") of accepted objects that all
\* carry a timestamp
ValidBatch(data) ==
    /\ Truthy(data)
    /\ data.k = "list" \/ "transactions" \in DOMAIN data.v
    /\ LET items == SentItems(data)
       IN /\ AllObjects(items)
          /\ \A i \in 1..Len(items) :
                Passes(items[i]) /\ "timestamp" \in DOMAIN items[i].v

\* C4: N valid records with timestamps end in the same list, in the same
\* order and with the same count, whether uploaded in one batch or in N
\* single-record calls.
C4_BatchAsSingles ==
    [][(UploadStep /\ ValidBatch(request'.data)) =>
        LET items == SentItems(request'.data)
            singles == OneByOne(transactions_db, items, 1)
        IN /\ transactions_db' = singles
           /\ response'.total_transactions = Len(singles)]_vars

\* a batch of two different valid records was stored behind an older one
C4_Witness ==
    /\ request.op = "upload"
    /\ ValidBatch(request.data)
    /\ Len(SentItems(request.data)) = 2
    /\ SentItems(request.data)[1] # SentItems(request.data)[2]
    /\ Len(transactions_db) = 3
    /\ response.added_count = 2

\* ---- C5 ----------------------------------------------------------------
NoInput == [status |-> 400, success |-> FALSE, error |-> "No data provided"]

\* absent payload (null), {} or an empty list of items, bare or wrapped
EmptyInput(data) ==
    \/ data.k = "null"
    \/ data.k = "obj" /\ DOMAIN data.v = {}
    \/ data.k = "list" /\ data.v = <<>>
    \/ data.k = "obj" /\ "transactions" \in DOMAIN data.v
                      /\ data.v.transactions.v = <<>>

\* at least one item, all of them objects the validator rejects
AllInvalid(data) ==
    /\ Truthy(data)
    /\ LET items == SentItems(data)
       IN items # <<>> /\ AllObjects(items) /\ PassingAt(items) = {}

\* C5: empty or absent input is reported as NoInput, a batch whose items
\* are all invalid as a rejection with added_count = 0 and one error per
\* item; the two replies differ and both leave the list unchanged.
C5_EmptyVersusAllInvalid ==
    [][(Idle /\ request'.op = "upload") =>
        /\ EmptyInput(request'.data) =>
              response' = NoInput /\ transactions_db' = transactions_db
        /\ AllInvalid(request'.data) =>
              /\ response' # NoInput
              /\ response'.status = 400
              /\ response'.added_count = 0
              /\ Len(ErrorsOf(response')) = Len(SentItems(request'.data))
              /\ transactions_db' = transactions_db]_vars

\* The same with the empty list under "transactions" taken out of the
\* empty inputs.
C5_ExceptWrappedEmpty ==
    [][(Idle /\ request'.op = "upload"
            /\ request'.data # Obj([transactions |-> List(<<>>)])) =>
        /\ EmptyInput(request'.data) =>
              response' = NoInput /\ transactions_db' = transactions_db
        /\ AllInvalid(request'.data) =>
              /\ response' # NoInput
              /\ response'.status = 400
              /\ response'.added_count = 0
              /\ Len(ErrorsOf(response')) = Len(SentItems(request'.data))
              /\ transactions_db' = transactions_db]_vars

\* ---- C6 ----------------------------------------------------------------
\* the sum of f(s[i]) over the sequence s
SumSeq(s, f(_)) ==
    LET sum[i \in 0..Len(s)] == IF i = 0 THEN 0 ELSE sum[i - 1] + f(s[i])
    IN sum[Len(s)]

QuantityOf(t) == PyNum(t.quantity)
AmountOf(t) == t.total_amount.v
GroupQuantity(g) == g.total_quantity
GroupSales(g) == g.total_sales
GroupCount(g) == g.transaction_count

ProductIdsOf(db) == {db[i].product_id : i \in 1..Len(db)}

\* a by-product query served without a limit parameter
ProductQueryNoLimit ==
    request.op = "sales_by_product" /\ "limit" \notin DOMAIN request.args

\* C6: without a limit, query_by_product returns exactly one group per
\* distinct product_id, and over all groups total_quantity sums to the
\* quantity of all stored records, total_sales to their total_amount and
\* transaction_count to their number.
C6_GroupsConserveTotals ==
    ProductQueryNoLimit =>
        LET groups == response.data
        IN /\ {groups[i].product_id : i \in 1..Len(groups)}
                 = ProductIdsOf(transactions_db)
           /\ Len(groups) = Cardinality(ProductIdsOf(transactions_db))
           /\ SumSeq(groups, GroupQuantity) = SumSeq(transactions_db, QuantityOf)
           /\ SumSeq(groups, GroupSales) = SumSeq(transactions_db, AmountOf)
           /\ SumSeq(groups, GroupCount) = Len(transactions_db)

\* three records of two products, one of them sold twice
C6_Witness ==
    /\ ProductQueryNoLimit
    /\ Len(transactions_db) = 3
    /\ Len(response.data) = 2
    /\ \E i \in 1..2 : response.data[i].transaction_count = 2
    /\ SumSeq(response.data, GroupSales) > 0

\* ---- C7 ----------------------------------------------------------------
\* the records of product pid / customer cid, in list order
RecordsOfProduct(db, pid) == SelectSeq(db, LAMBDA t : t.product_id = pid)
RecordsOfCustomer(db, cid) == SelectSeq(db, LAMBDA t : t.customer_id = cid)

\* the value a product ranks by under sort key "total_sales" / "total_quantity"
ProductRank(db, pid, key) ==
    IF key = "total_sales" THEN SumSeq(RecordsOfProduct(db, pid), AmountOf)
    ELSE SumSeq(RecordsOfProduct(db, pid), QuantityOf)

\* a by-product query with sort_by sales or quantity (or none: sales) and
\* order asc or desc (or none: desc)
ProductQuerySorted ==
    /\ request.op = "sales_by_product"
    /\ "sort_by" \in DOMAIN request.args => request.args.sort_by \in {"sales", "quantity"}
    /\ "order" \in DOMAIN request.args => request.args.order \in {"asc", "desc"}

\* C7: the groups come ordered by the selected key, non-increasing for
\* desc (the default) and non-decreasing for asc; a limit N > 0 keeps the
\* first min(N, number of groups) of the sorted list, so no omitted group
\* ranks before a returned one.
C7_SortedThenLimited ==
    ProductQuerySorted =>
        LET args == request.args
            groups == response.data
            key == IF "sort_by" \in DOMAIN args /\ args.sort_by = "quantity"
                   THEN "total_quantity" ELSE "total_sales"
            asc == "order" \in DOMAIN args /\ args.order = "asc"
            pids == ProductIdsOf(transactions_db)
            returned == {groups[i].product_id : i \in 1..Len(groups)}
            capped == "limit" \in DOMAIN args /\ args.limit.k = "int" /\ args.limit.v > 0
        IN /\ \A i \in 1..Len(groups) :
                 /\ groups[i].product_id \in pids
                 /\ groups[i][key] = ProductRank(transactions_db, groups[i].product_id, key)
           /\ Cardinality(returned) = Len(groups)
           /\ \A i \in 1..Len(groups), j \in 1..Len(groups) :
                 i < j => IF asc THEN groups[i][key] <= groups[j][key]
                          ELSE groups[i][key] >= groups[j][key]
           /\ capped => Len(groups) = Min(args.limit.v, Cardinality(pids))
           /\ \A o \in pids \ returned : \A r \in returned :
                 IF asc
                 THEN ProductRank(transactions_db, o, key) >= ProductRank(transactions_db, r, key)
                 ELSE ProductRank(transactions_db, o, key) <= ProductRank(transactions_db, r, key)

\* limit 1 kept the group that ranks first, which is not the first stored
C7_Witness ==
    /\ ProductQuerySorted
    /\ "limit" \in DOMAIN request.args /\ request.args.limit = IntText(1)
    /\ Cardinality(ProductIdsOf(transactions_db)) = 2
    /\ Len(response.data) = 1
    /\ response.data[1].product_id # transactions_db[1].product_id

\* ---- C8 ----------------------------------------------------------------
\* a top-customers query with min_spent=0 and nothing else
TopQueryMinSpentZero ==
    /\ request.op = "top_customers"
    /\ DOMAIN request.args = {"min_spent"}
    /\ request.args.min_spent \in {IntText(0), FloatText(0)}

ReturnedCustomers == {response.data[i].customer_id : i \in 1..Len(response.data)}

\* C8 as stated: with min_spent=0 and the other parameters at their
\* defaults, exactly one entry per distinct customer_id in the list: none
\* missing, none twice.
C8_OneEntryPerCustomer ==
    TopQueryMinSpentZero =>
        /\ ReturnedCustomers = CustomerIdsOf(transactions_db)
        /\ Len(response.data) = Cardinality(CustomerIdsOf(transactions_db))

\* C8 amended: no customer appears twice and every entry is a customer of
\* the list; none is missing while the list holds at most 10 (the default
\* limit) distinct customers, and with more than 10 exactly 10 are returned.
C8_OneEntryPerCustomerUpToDefaultLimit ==
    TopQueryMinSpentZero =>
        LET ids == CustomerIdsOf(transactions_db)
        IN /\ ReturnedCustomers \subseteq ids
           /\ Len(response.data) = Cardinality(ReturnedCustomers)
           /\ Cardinality(ids) <= DefaultLimit => ReturnedCustomers = ids
           /\ Cardinality(ids) > DefaultLimit => Len(response.data) = DefaultLimit

\* ten customers, one of them with two records, all ten returned
C8_Witness ==
    /\ TopQueryMinSpentZero
    /\ Cardinality(CustomerIdsOf(transactions_db)) = 10
    /\ Len(transactions_db) = 11
    /\ Len(response.data) = 10

\* ---- C9 ----------------------------------------------------------------
CustomerSpent(db, cid) == SumSeq(RecordsOfCustomer(db, cid), AmountOf)

TopQuery == request.op = "top_customers" /\ response.status = 200

\* the limit and the threshold the query string stands for
LimitOf(args) ==
    IF "limit" \in DOMAIN args /\ args.limit.k = "int" THEN args.limit.v
    ELSE DefaultLimit
MinSpentOf(args) ==
    IF "min_spent" \in DOMAIN args /\ args.min_spent.k = "int" THEN 4 * args.min_spent.v
    ELSE IF "min_spent" \in DOMAIN args /\ args.min_spent.k = "float" THEN args.min_spent.v
    ELSE 0

\* the customers whose total_spent reaches the threshold
Qualifying(db, args) ==
    {c \in CustomerIdsOf(db) : CustomerSpent(db, c) >= MinSpentOf(args)}

TopRanking(args) ==
    LET rows == response.data
        q == Qualifying(transactions_db, args)
    IN /\ ReturnedCustomers \subseteq q
       /\ Cardinality(ReturnedCustomers) = Len(rows)
       /\ \A i \in 1..Len(rows) :
             rows[i].total_spent = CustomerSpent(transactions_db, rows[i].customer_id)
       /\ \A i \in 1..Len(rows), j \in 1..Len(rows) :
             i < j => rows[i].total_spent >= rows[j].total_spent
       /\ \A o \in q \ ReturnedCustomers : \A r \in ReturnedCustomers :
             CustomerSpent(transactions_db, o) <= CustomerSpent(transactions_db, r)

\* C9: the result is the first `limit` entries (default 10) of the
\* customers with total_spent >= min_spent ordered by total_spent
\* non-increasing: nobody below the threshold, never more than `limit`
\* entries (so none for a limit below 0), no omitted qualifying customer
\* ahead of a returned one.
C9_TopWithinLimit ==
    TopQuery =>
        /\ TopRanking(request.args)
        /\ Len(response.data) <= Max(LimitOf(request.args), 0)

\* The same for limits >= 0, where the result has exactly
\* min(limit, number of qualifying customers) entries.
C9_ExceptNegativeLimit ==
    (TopQuery /\ LimitOf(request.args) >= 0) =>
        /\ TopRanking(request.args)
        /\ Len(response.data) =
              Min(LimitOf(request.args),
                  Cardinality(Qualifying(transactions_db, request.args)))

\* ---- C10 ---------------------------------------------------------------
One(t) == 1

\* C10: each entry has total_spent = the sum of total_amount over the
\* customer's records, total_transactions = their number (>= 1),
\* total_items = the sum of their quantity, unique_products_count = the
\* number of distinct product_name among them, and average_transaction =
\* total_spent / total_transactions.
C10_CustomerStatistics ==
    TopQuery =>
        \A i \in 1..Len(response.data) :
            LET row == response.data[i]
                mine == RecordsOfCustomer(transactions_db, row.customer_id)
                names == {mine[j].product_name : j \in 1..Len(mine)}
            IN /\ row.total_spent = SumSeq(mine, AmountOf)
               /\ row.total_transactions = Len(mine)
               /\ row.total_transactions >= 1
               /\ row.total_items = SumSeq(mine, QuantityOf)
               /\ row.unique_products_count = Cardinality(names)
               /\ row.average_transaction.den # 0
               /\ row.average_transaction.num * Len(mine)
                     = SumSeq(mine, AmountOf) * row.average_transaction.den

\* a customer with two records of different products, one of them a
\* fractional quantity, beside another customer
C10_Witness ==
    /\ TopQuery
    /\ Len(response.data) = 2
    /\ \E i \in 1..2 :
          /\ response.data[i].total_transactions = 2
          /\ response.data[i].unique_products_count = 2
          /\ response.data[i].total_items = 5
          /\ response.data[i].total_spent = 20

\* ---- C11 ---------------------------------------------------------------
FilterQuery == request.op = "filter"

\* a parameter the caller sent
Supplied(args, name) == name \in DOMAIN args

\* an amount parameter the caller sent as a number, in quarters
AmountGiven(args, name) ==
    Supplied(args, name) /\ args[name].k \in {"int", "float"}
AmountParam(args, name) ==
    IF args[name].k = "int" THEN 4 * args[name].v ELSE args[name].v

\* the instant an ISO-8601 text names, a text without offset read as UTC
TimeOf(text) == fromisoformat(text).t

\* every date bound the caller sent can be parsed
BoundsParse(args) ==
    \A name \in {"start_date", "end_date"} :
        Supplied(args, name) => fromisoformat(args[name]).ok

\* some date bound the caller sent carries a UTC offset
OffsetBound(args) ==
    \E name \in {"start_date", "end_date"} :
        Supplied(args, name) /\ fromisoformat(args[name]).aware

\* record t satisfies every predicate whose parameter was sent
Satisfies(t, args) ==
    /\ Supplied(args, "customer_id") => t.customer_id = args.customer_id
    /\ Supplied(args, "product_id") => t.product_id = args.product_id
    /\ AmountGiven(args, "min_amount") =>
          t.total_amount.v >= AmountParam(args, "min_amount")
    /\ AmountGiven(args, "max_amount") =>
          t.total_amount.v <= AmountParam(args, "max_amount")
    /\ Supplied(args, "start_date") =>
          TimeOf(t.timestamp) >= TimeOf(args.start_date)
    /\ Supplied(args, "end_date") =>
          TimeOf(t.timestamp) <= TimeOf(args.end_date)

\* the stored records that satisfy the predicates, in insertion order
Matching(db, args) ==
    LET Test(t) == Satisfies(t, args)
    IN SelectSeq(db, Test)

\* neither limit nor offset was sent: the page is the whole filtered set
Unpaged(args) == ~Supplied(args, "limit") /\ ~Supplied(args, "offset")

\* C11: a filter query whose date bounds parse returns exactly the stored
\* records that satisfy every supplied predicate (customer_id, product_id,
\* min_amount, max_amount, start_date, end_date), in insertion order; with
\* no parameter it returns the whole list.
C11_FilterMatchesPredicates ==
    (FilterQuery /\ BoundsParse(request.args) /\ Unpaged(request.args)) =>
        /\ response.status = 200
        /\ response.data = Matching(transactions_db, request.args)
        /\ (request.args = <<>> => response.data = transactions_db)

\* The same for date bounds without a UTC offset.
C11_ExceptOffsetBounds ==
    (/\ FilterQuery
     /\ BoundsParse(request.args)
     /\ ~OffsetBound(request.args)
     /\ Unpaged(request.args)) =>
        /\ response.status = 200
        /\ response.data = Matching(transactions_db, request.args)
        /\ (request.args = <<>> => response.data = transactions_db)

\* ---- C12 ---------------------------------------------------------------
\* a limit or offset the caller sent as an integer
IntGiven(args, name) == Supplied(args, name) /\ args[name].k = "int"

OffsetOf(args) == IF IntGiven(args, "offset") THEN args.offset.v ELSE 0

\* the records of s at the 0-based positions [lo, hi)
Positions(s, lo, hi) ==
    LET Inside(i) == lo <= i - 1 /\ i - 1 < hi
        idx == {i \in 1..Len(s) : Inside(i)}
    IN [k \in 1..Cardinality(idx) |->
           s[CHOOSE i \in idx : Cardinality({j \in idx : j < i}) = k - 1]]

\* the page [offset, offset + limit) of s, or everything from offset on
\* when no limit was sent
PageOf(s, args) ==
    IF IntGiven(args, "limit")
    THEN Positions(s, OffsetOf(args), OffsetOf(args) + args.limit.v)
    ELSE Positions(s, OffsetOf(args), Len(s))

\* limit and offset are absent or not negative
NotNegative(args) ==
    \A name \in {"limit", "offset"} :
        IntGiven(args, name) => args[name].v >= 0

\* C12: in a filter query that succeeds with limit and offset not
\* negative, total_count and total_amount are the count and the sum of
\* total_amount of the whole filtered set, whatever limit and offset are,
\* and the page is the part [offset, offset + limit) of the filtered set,
\* or everything from offset on when limit is absent.
C12_TotalsAndPage ==
    (FilterQuery /\ response.status = 200 /\ NotNegative(request.args)) =>
        LET all == Matching(transactions_db, request.args)
        IN /\ response.total_count = Len(all)
           /\ response.total_amount = SumSeq(all, AmountOf)
           /\ response.data = PageOf(all, request.args)
           /\ response.count = Len(response.data)

\* The same when the limit sent is not 0.
C12_ExceptLimitZero ==
    (/\ FilterQuery
     /\ response.status = 200
     /\ NotNegative(request.args)
     /\ (IntGiven(request.args, "limit") => request.args.limit.v # 0)) =>
        LET all == Matching(transactions_db, request.args)
        IN /\ response.total_count = Len(all)
           /\ response.total_amount = SumSeq(all, AmountOf)
           /\ response.data = PageOf(all, request.args)
           /\ response.count = Len(response.data)

\* ---- C13 ---------------------------------------------------------------
\* a filter query is served in this step
FilterStep == Idle /\ request'.op = "filter"

\* C13: a filter query with a start_date or end_date that cannot be parsed
\* is answered 400 "Invalid date format" without data, totals or counts,
\* whatever the list holds (nothing, or records another bound would fail
\* on), and the list is left as it was.
C13_UnparseableBoundFailsCall ==
    [][(FilterStep /\ ~BoundsParse(request'.args)) =>
          /\ response'.status = 400
          /\ response'.success = FALSE
          /\ response'.error = InvalidDateFormat
          /\ DOMAIN response' \cap {"data", "count", "total_count", "total_amount"} = {}
          /\ transactions_db' = transactions_db]_vars

\* the empty list, an end_date that does not parse and a start_date that
\* does
C13_Witness ==
    /\ FilterQuery
    /\ transactions_db = <<>>
    /\ Supplied(request.args, "start_date")
    /\ Supplied(request.args, "end_date")
    /\ fromisoformat(request.args.start_date).ok
    /\ ~fromisoformat(request.args.end_date).ok
    /\ response.status = 400
    /\ response.error = InvalidDateFormat

\* ---- C14 ---------------------------------------------------------------
ListQuery == request.op = "list_all"

\* C14: list_all with an offset >= 0 and a limit >= 0 returns the records
\* at the positions [offset, min(offset + limit, size)) in insertion
\* order; without a limit it returns the records from offset to the end;
\* with offset >= size it returns nothing; total_count is the size of the
\* list.
C14_Window ==
    (ListQuery /\ NotNegative(request.args)) =>
        LET size == Len(transactions_db)
            offset == OffsetOf(request.args)
        IN /\ response.status = 200
           /\ response.total_count = size
           /\ response.data = PageOf(transactions_db, request.args)
           /\ (IntGiven(request.args, "limit") =>
                 response.data =
                     Positions(transactions_db, offset,
                               Min(offset + request.args.limit.v, size)))
           /\ (offset >= size => response.data = <<>>)

\* The same when the limit sent is not 0.
C14_ExceptLimitZero ==
    (/\ ListQuery
     /\ NotNegative(request.args)
     /\ (IntGiven(request.args, "limit") => request.args.limit.v # 0)) =>
        LET size == Len(transactions_db)
            offset == OffsetOf(request.args)
        IN /\ response.status = 200
           /\ response.total_count = size
           /\ response.data = PageOf(transactions_db, request.args)
           /\ (offset >= size => response.data = <<>>)

\* ---- C15 ---------------------------------------------------------------
\* args with a negative offset replaced by 0 and a negative limit left out
WithoutNegatives(args) ==
    LET keep == {name \in DOMAIN args :
                    ~(name = "limit" /\ IntGiven(args, "limit") /\ args.limit.v < 0)}
    IN [name \in keep |->
           IF name = "offset" /\ IntGiven(args, "offset") /\ args.offset.v < 0
           THEN IntText(0) ELSE args[name]]

\* C15: list_all with a negative offset returns what it returns with
\* offset 0, with a negative limit what it returns without a limit, and
\* it never fails.
C15_NegativeHasNoEffect ==
    ListQuery =>
        /\ response.status = 200
        /\ response.data =
              get_all_transactions(transactions_db,
                                   WithoutNegatives(request.args)).data

\* ---- C16 ---------------------------------------------------------------
\* list_all(limit = L, offset = O) on the list db
PageAt(db, L, O) ==
    get_all_transactions(db, [limit |-> IntText(L), offset |-> IntText(O)]).data

\* the pages of L records at the offsets 0, L, ..., (k - 1) * L, in a row
RECURSIVE PagesUpTo(_, _, _)
PagesUpTo(db, L, k) ==
    IF k = 0 THEN <<>> ELSE PagesUpTo(db, L, k - 1) \o PageAt(db, L, (k - 1) * L)

\* a list_all query with a limit L > 0 and an offset O >= 0
PagedListQuery ==
    /\ ListQuery
    /\ IntGiven(request.args, "limit")
    /\ request.args.limit.v > 0
    /\ OffsetOf(request.args) >= 0

\* C16: for L > 0 and O >= 0 the page at offset O followed by the page at
\* offset O + L is the list's records at the positions [O, O + 2L), each
\* once; the pages at 0, L, 2L, ... in a row are the whole list.
C16_AdjacentPages ==
    PagedListQuery =>
        LET L == request.args.limit.v
            O == OffsetOf(request.args)
            size == Len(transactions_db)
            next == PageAt(transactions_db, L, O + L)
        IN /\ response.data \o next = Positions(transactions_db, O, O + 2 * L)
           /\ Len(response.data) + Len(next) = Max(Min(O + 2 * L, size) - O, 0)
           /\ response.data = PageAt(transactions_db, L, O)
           /\ PagesUpTo(transactions_db, L, size) = transactions_db

\* three records in pages of one: the page at offset 1 is the second
\* record alone
C16_Witness ==
    /\ PagedListQuery
    /\ Len(transactions_db) = 3
    /\ request.args.limit.v = 1
    /\ OffsetOf(request.args) = 1
    /\ response.data = <<transactions_db[2]>>
    /\ PageAt(transactions_db, 1, 2) = <<transactions_db[3]>>

\* ---- C17 ---------------------------------------------------------------
\* a call of the given kind is served in this step
Serving(op) == Idle /\ request'.op = op

\* the reply says the upload succeeded and gives the number it added
ReportsAdded(resp) ==
    /\ resp.success
    /\ "added_count" \in DOMAIN resp
    /\ resp.added_count >= 1

\* what the queries answer while the list is empty
EmptyAnswers ==
    /\ Serving("list_all") =>
          response'.total_count = 0 /\ response'.data = <<>>
    /\ (Serving("sales_by_product") \/ Serving("top_customers")) =>
          response'.status = 200 /\ response'.data = <<>>
    /\ Serving("clear") => response'.cleared = 0

\* C17: clear reports the size the list had and leaves it empty; from then
\* on the list stays empty until an upload that reports success, and while
\* it is empty a further clear reports 0, list_all reports total_count 0
\* and both aggregate queries return empty lists.
C17_ClearThenEmpty ==
    [][/\ Serving("clear") =>
             /\ response'.status = 200
             /\ response'.cleared = Len(transactions_db)
             /\ transactions_db' = <<>>
       /\ (transactions_db = <<>> /\ transactions_db' # <<>>) =>
             Serving("upload") /\ ReportsAdded(response')
       /\ transactions_db = <<>> => EmptyAnswers]_vars

\* The same with "until an upload stores a record", whatever that upload
\* reports.
C17_ExceptFailedUpload ==
    [][/\ Serving("clear") =>
             /\ response'.status = 200
             /\ response'.cleared = Len(transactions_db)
             /\ transactions_db' = <<>>
       /\ (transactions_db = <<>> /\ transactions_db' # <<>>) =>
             Serving("upload")
       /\ transactions_db = <<>> => EmptyAnswers]_vars

\* ---- C18 ---------------------------------------------------------------
\* rec is what validation made of one of the items sent: a record with
\* the seven required fields as sent, a total_amount and a timestamp
ValidatedFrom(rec, sent) ==
    /\ {required_fields[i] : i \in 1..Len(required_fields)}
          \cup {"total_amount", "timestamp"} \subseteq DOMAIN rec
    /\ \E i \in 1..Len(sent) :
          /\ sent[i].k = "obj"
          /\ Passes(sent[i])
          /\ \A f \in DOMAIN sent[i].v \ {"total_amount"} : rec[f] = sent[i].v[f]

\* C18: a step leaves the list as it is, or is an upload that appends
\* validated records behind the records already there, or is a clear that
\* empties it; the four queries and the health check leave it as it is.
C18_AppendOrReset ==
    [][/\ \/ transactions_db' = transactions_db
          \/ Serving("clear") /\ transactions_db' = <<>>
          \/ /\ Serving("upload")
             /\ Len(transactions_db') > Len(transactions_db)
             /\ SubSeq(transactions_db', 1, Len(transactions_db)) = transactions_db
             /\ \A i \in (Len(transactions_db) + 1)..Len(transactions_db') :
                   ValidatedFrom(transactions_db'[i], SentItems(request'.data))
       /\ (\E op \in {"sales_by_product", "top_customers", "filter", "list_all",
                     "health"} : Serving(op)) =>
             transactions_db' = transactions_db]_vars

\* an upload put one record behind two that stay as they were
C18_Witness ==
    /\ request.op = "upload"
    /\ Len(transactions_db) = 3
    /\ response.status = 201
    /\ response.added_count = 1

\* ---- C19 ---------------------------------------------------------------
AllReplied == \A t \in Threads : response[t] # NoReply

\* the handler of a call run alone, start to end, on the list db
Alone(call, db) ==
    CASE call.op = "upload" ->
             upload_transactions(db, call.data,
                                 [i \in 1..Len(SentItems(call.data)) |-> Clock[1]])
      [] call.op = "clear" -> clear_transactions(db)
      [] OTHER -> [db |-> db, response |-> get_all_transactions(db, <<>>)]

\* the calls run one after the other, thread a's first, give this list
\* and these replies
SerialOrder(a, b) ==
    LET first == Alone(request[a], <<>>)
        second == Alone(request[b], first.db)
    IN /\ transactions_db = second.db
       /\ response[a] = first.response
       /\ response[b] = second.response

\* C19: when calls are served at the same time, the list and the replies
\* at the end are those of the calls run one after the other in some
\* order: no clear leaves part of a batch behind, no list_all sees part
\* of a batch.
C19_Serializable ==
    AllReplied => \E a \in Threads, b \in Threads : a # b /\ SerialOrder(a, b)

\* ---- C20 ---------------------------------------------------------------
ProductQuery == request.op = "sales_by_product"

\* args with the documented default in place of every value that is
\* absent or not recognised: sort_by sales, order desc, no limit
WithDefaults(args) ==
    LET sort_by == IF Supplied(args, "sort_by") /\ args.sort_by \in {"sales", "quantity"}
                   THEN args.sort_by ELSE "sales"
        order == IF Supplied(args, "order") /\ args.order \in {"asc", "desc"}
                 THEN args.order ELSE "desc"
        base == [sort_by |-> sort_by, order |-> order]
    IN IF IntGiven(args, "limit") /\ args.limit.v > 0
       THEN base @@ [limit |-> args.limit]
       ELSE base

\* C20: the product query never fails and answers as it does with sort_by
\* sales in place of an absent or unknown sort_by, order desc in place of
\* an absent or unknown order, and no limit in place of an absent or
\* non-positive one.
C20_FallsBackToDefaults ==
    ProductQuery =>
        /\ response.status = 200
        /\ response = sales_by_product(transactions_db, WithDefaults(request.args))

\* The same for queries whose sort_by and order, when sent, are among
\* sales, quantity and asc, desc.
C20_ExceptUnknownSortAndOrder ==
    (/\ ProductQuery
     /\ (Supplied(request.args, "sort_by") =>
            request.args.sort_by \in {"sales", "quantity"})
     /\ (Supplied(request.args, "order") =>
            request.args.order \in {"asc", "desc"})) =>
        /\ response.status = 200
        /\ response = sales_by_product(transactions_db, WithDefaults(request.args))

\* ---- C21 ---------------------------------------------------------------
\* the position in the list of the first record whose field is id
FirstSeen(db, field, id) ==
    CHOOSE i \in 1..Len(db) :
        /\ db[i][field] = id
        /\ \A j \in 1..(i - 1) : db[j][field] # id

\* the rows that tie on key come in the order their ids were first stored
TiesInFirstSeenOrder(rows, key, field) ==
    \A i \in 1..Len(rows), j \in 1..Len(rows) :
        (i < j /\ rows[i][key] = rows[j][key]) =>
            FirstSeen(transactions_db, field, rows[i][field])
                < FirstSeen(transactions_db, field, rows[j][field])

\* C21: in the product query (sort_by sales or quantity, any order) and in
\* the top-customers query, two groups with equal sort key appear in the
\* order in which their product_id / customer_id was first seen in the
\* list, ascending and descending alike.
C21_StableSort ==
    /\ (ProductQuery /\ ProductQuerySorted) =>
          TiesInFirstSeenOrder(
              response.data,
              IF Supplied(request.args, "sort_by") /\ request.args.sort_by = "quantity"
              THEN "total_quantity" ELSE "total_sales",
              "product_id")
    /\ ProductQuery =>
          \A i \in 1..Len(response.data), j \in 1..Len(response.data) :
              (/\ i < j
               /\ response.data[i].total_sales = response.data[j].total_sales
               /\ response.data[i].total_quantity = response.data[j].total_quantity) =>
                  FirstSeen(transactions_db, "product_id", response.data[i].product_id)
                      < FirstSeen(transactions_db, "product_id",
                                  response.data[j].product_id)
    /\ TopQuery => TiesInFirstSeenOrder(response.data, "total_spent", "customer_id")

\* two products of equal quantity sorted by quantity, descending: the one
\* stored first comes first although its sales are lower
C21_Witness ==
    /\ ProductQuery
    /\ Supplied(request.args, "sort_by") /\ request.args.sort_by = "quantity"
    /\ ~Supplied(request.args, "order")
    /\ Len(response.data) = 2
    /\ response.data[1].total_quantity = response.data[2].total_quantity
    /\ response.data[1].total_sales < response.data[2].total_sales
    /\ response.data[1].product_id = transactions_db[1].product_id

\* ---- C22 ---------------------------------------------------------------
\* the first stored record whose field is id
FirstRecord(db, field, id) == db[FirstSeen(db, field, id)]

\* C22: a product group carries the product_name of the earliest stored
\* record of its product_id and a customer entry the customer_name of the
\* earliest stored record of its customer_id, while the totals count every
\* record of the id, those with another name included.
C22_FirstSeenName ==
    /\ ProductQuery =>
          \A i \in 1..Len(response.data) :
              LET row == response.data[i]
                  mine == RecordsOfProduct(transactions_db, row.product_id)
              IN /\ row.product_name =
                        FirstRecord(transactions_db, "product_id",
                                    row.product_id).product_name
                 /\ row.transaction_count = Len(mine)
                 /\ row.total_sales = SumSeq(mine, AmountOf)
                 /\ row.total_quantity = SumSeq(mine, QuantityOf)
    /\ TopQuery =>
          \A i \in 1..Len(response.data) :
              LET row == response.data[i]
                  mine == RecordsOfCustomer(transactions_db, row.customer_id)
              IN /\ row.customer_name =
                        FirstRecord(transactions_db, "customer_id",
                                    row.customer_id).customer_name
                 /\ row.total_transactions = Len(mine)
                 /\ row.total_spent = SumSeq(mine, AmountOf)

\* three records of one product under three names: the group has the first
\* record's name and counts all three
C22_Witness ==
    /\ ProductQuery
    /\ Len(transactions_db) = 3
    /\ Cardinality({transactions_db[i].product_name : i \in 1..3}) = 3
    /\ Len(response.data) = 1
    /\ response.data[1].product_name = transactions_db[1].product_name
    /\ response.data[1].product_name # transactions_db[3].product_name
    /\ response.data[1].transaction_count = 3

\* ---- C23 ---------------------------------------------------------------
\* C23: an upload whose reply gives an added_count has put exactly that
\* many records behind the records already stored; an upload whose reply
\* is a failure without added_count ("No data provided", or the server
\* error raised on an item that is not a record) has left the list as it
\* was, the valid items in front of the offending item included.
C23_ReplyTellsWhatWasStored ==
    [][Serving("upload") =>
          /\ SubSeq(transactions_db', 1, Len(transactions_db)) = transactions_db
          /\ IF "added_count" \in DOMAIN response'
             THEN Len(transactions_db') = Len(transactions_db) + response'.added_count
             ELSE /\ response'.success = FALSE
                  /\ transactions_db' = transactions_db]_vars

\* The same for the uploads that do not end in a server error.
C23_ExceptServerError ==
    [][(Serving("upload") /\ response'.status # 500) =>
          /\ SubSeq(transactions_db', 1, Len(transactions_db)) = transactions_db
          /\ IF "added_count" \in DOMAIN response'
             THEN Len(transactions_db') = Len(transactions_db) + response'.added_count
             ELSE /\ response'.success = FALSE
                  /\ transactions_db' = transactions_db]_vars

\* ---- C24 ---------------------------------------------------------------
\* record t passes the customer_id, product_id and amount predicates sent
PassesIdAndAmount(t, args) ==
    /\ Supplied(args, "customer_id") => t.customer_id = args.customer_id
    /\ Supplied(args, "product_id") => t.product_id = args.product_id
    /\ AmountGiven(args, "min_amount") =>
          t.total_amount.v >= AmountParam(args, "min_amount")
    /\ AmountGiven(args, "max_amount") =>
          t.total_amount.v <= AmountParam(args, "max_amount")

\* a date bound was sent
DateBounded(args) == Supplied(args, "start_date") \/ Supplied(args, "end_date")

\* some stored record whose timestamp does not parse passes the customer,
\* product and amount predicates
UnparseableReached(db, args) ==
    \E i \in 1..Len(db) :
        /\ ~fromisoformat(db[i].timestamp).ok
        /\ PassesIdAndAmount(db[i], args)

FailsInvalidDate(resp) == resp.status = 400 /\ resp.error = InvalidDateFormat

\* what the claim says of the state after a call
StampsContract(bounded) ==
    /\ request.op = "upload" =>
          /\ response.status = 201
          /\ transactions_db[Len(transactions_db)].timestamp
                = request.data.v.timestamp
    /\ (FilterQuery /\ bounded /\ BoundsParse(request.args)) =>
          FailsInvalidDate(response)
              <=> UnparseableReached(transactions_db, request.args)
    /\ (FilterQuery /\ ~DateBounded(request.args)) => response.status = 200
    /\ ListQuery =>
          response.status = 200 /\ response.total_count = Len(transactions_db)
    /\ ProductQuery => response.status = 200
    /\ request.op = "top_customers" => response.status = 200

\* C24: an upload stores a record with the timestamp as sent even when it
\* is no ISO-8601 text; while such records are stored, a filter query with
\* date bounds that parse fails with "Invalid date format" exactly when a
\* stored record whose timestamp does not parse passes the customer_id,
\* product_id and amount predicates of the call; the filter query without date bounds, list_all and both aggregate
\* queries succeed.
C24_UnparseableStoredTimestamp ==
    StampsContract(DateBounded(request.args))

\* The same for date bounds without a UTC offset.
C24_ExceptOffsetBounds ==
    StampsContract(DateBounded(request.args) /\ ~OffsetBound(request.args))

====
